---- MODULE Spec2Model ----
(***************************************************************************)
(* Model of the Python crash reporter (clients/python/crash_reporter.py):  *)
(* the delivery pipeline of CrashReporter -- report_crash, _send_to_api,   *)
(* _store_locally, get_local_crashes, retry_local_crashes -- run by        *)
(* several reporter processes of the same application that share one       *)
(* fallback queue directory; the crash handler install_crash_handler puts  *)
(* in sys.excepthook; and the reader client (clients/python/               *)
(* crash_reader.py): read_crash_reports, get_crash_stats,                  *)
(* get_recent_crashes, get_crashes_by_error.                               *)
(***************************************************************************)
EXTENDS Integers, Sequences, FiniteSets, TLC

(***************************************************************************)
(* Bounds of the model.                                                    *)
(***************************************************************************)
MaxReports == 2      \* report_crash calls in one behaviour
MaxClock == 2        \* last tick of the host clock (two ticks a second)

(***************************************************************************)
(* Reporter processes.  All are constructed with the same app_name, the    *)
(* same hmac_secret and the default local_storage_path, so they share the  *)
(* queue directory ~/.<app_name>_crashes.                                  *)
(***************************************************************************)
Procs == {"r1", "r2"}
app_name == "app"
app_version == "v1"
hmac_secret == "secret"

None == "None"          \* Python's None
NoData == [kind |-> "none"]         \* None where a report dict is expected
NoPath == <<"", 0, "", "">>         \* None where a file path is expected
NoFile == [kind |-> "absent"]
NoRequest == [kind |-> "none"]

\* additional_context arguments: a JSON-serializable dict that holds a tuple,
\* a dict holding an object json cannot serialize.
Contexts == {"tuple", "object"}
UserIds == {None}
SessionIds == {None}

\* What the single requests.post of one _send_to_api call can give.
Statuses == {"200", "429", "500"}
TransportErrors == {"timeout"}

VARIABLES
    system,       \* what platform.system() returns on the host
    endpoint,     \* the collection endpoint: "any" while a transmission can
                  \* meet any response, "up" once every one is answered 200
    now,          \* host clock, in ticks
    dirExists,    \* the queue directory local_storage_path exists
    dir,          \* queue directory: file name -> file content or NoFile
    pc,           \* per process: position in the running method
    crash_data,   \* per process: crash_data of the running method
    outcome,      \* per process: what _send_to_api met for crash_data
    wire,         \* per process: the request _send_to_api posted for crash_data
    filepath,     \* per process: file the running method works on
    stored,       \* per process: how the last _store_locally call went
    listing,      \* per process: rest of the os.listdir result of the replay
    sent_count,   \* per process: sent_count of the running replay
    result,       \* per process: what its last finished method returned
    reported,     \* number of report_crash calls so far
    original,     \* history, per process: the report as _build_crash_data
                  \* returned it, for the report the process is sending
    origin,       \* history, per file: the report as built, for the report
                  \* whose text the file holds
    call,         \* history, per process: the entries its replay listed, the
                  \* deliveries it attempted and those answered 200, and
                  \* whether it started while quiet
    quiet,        \* history: the last replay to return had no failed delivery
                  \* attempt, ran while no other process was in a method,
                  \* and no report was stored since
    hpc,          \* crash handler: position of the main thread
    exc_type,     \* crash handler: class of the unhandled exception
    thread,       \* crash handler: state of the reporting thread
    waited,       \* crash handler: seconds thread.join has waited
    hook_calls,   \* history: calls of original_excepthook so far
    rpc,          \* reader: position of the running method
    rcall,        \* reader: the running method and its arguments
    rrequest,     \* reader: the GET request the running method issued
    rresponse,    \* reader: what the request met
    rresult       \* reader: what the method returned or raised

\* The variables of the environment, of the crash handler and of the reader.
hostVars == <<system, endpoint>>
handlerVars == <<hpc, exc_type, thread, waited, hook_calls>>
readerVars == <<rpc, rcall, rrequest, rresponse, rresult>>

vars == <<hostVars, now, dirExists, dir, pc, crash_data, outcome, wire, filepath, stored,
          listing, sent_count, result, reported, original, origin, call, quiet,
          handlerVars, readerVars>>

(***************************************************************************)
(* Pure functions of the reporter.                                         *)
(***************************************************************************)

\* _get_hardware_specs followed by hardware_specs.update(additional_context):
\* the snapshot itself holds only numbers and strings, so what matters for
\* serialization is what the context adds.
HardwareSpecs(ctx) == ctx

\* The names platform.system() returns: the kernel's name as uname gives it,
\* 'Java' on Jython, or '' when it cannot be determined.
Systems == {"Linux", "Windows", "Darwin", "Android", "iOS", "FreeBSD", "Java", ""}

\* str.lower() on the names of Systems.
LowerName(name) ==
    CASE name = "Linux" -> "linux"
      [] name = "Windows" -> "windows"
      [] name = "Darwin" -> "darwin"
      [] name = "Android" -> "android"
      [] name = "iOS" -> "ios"
      [] name = "FreeBSD" -> "freebsd"
      [] name = "Java" -> "java"
      [] OTHER -> name

\* _get_platform: the lowered system name, with darwin renamed to macos.
GetPlatform(name) ==
    LET lowered == LowerName(name)
    IN IF lowered = "darwin" THEN "macos" ELSE lowered

\* _build_crash_data: the report dict; crash_timestamp is the clock at the call.
BuildCrashData(error, user_id, session_id, ctx, clock) ==
    [app_name |-> app_name,
     app_version |-> app_version,
     platform |-> GetPlatform(system),
     crash_timestamp |-> clock,
     error_message |-> error,
     hardware_specs |-> HardwareSpecs(ctx),
     user_id |-> user_id,
     session_id |-> session_id]

\* json: a Python value of hardware_specs as a JSON value (a tuple and a list
\* both become an array), and back (an array is loaded as a list).
ToJson(v) == IF v \in {"tuple", "list"} THEN "array" ELSE v
FromJson(j) == IF j = "array" THEN "list" ELSE j

\* json.dumps / json.dump raise TypeError on a value they cannot serialize.
Serializable(data) == data.hardware_specs # "object"

\* The JSON document of a report: same keys in the same order, values encoded.
JsonDoc(data) == [data EXCEPT !.hardware_specs = ToJson(@)]

\* json.dumps(crash_data, separators=(',', ':')): the payload text.
JsonDumps(data) == [fmt |-> "compact", doc |-> JsonDoc(data)]

\* json.dump(crash_data, f, indent=2, ensure_ascii=False): the file text.
JsonDump(data) == [fmt |-> "indent2", doc |-> JsonDoc(data)]

\* json.load(f): the dict parsed from a JSON text, whatever its layout.
JsonLoad(text) == [text.doc EXCEPT !.hardware_specs = FromJson(@)]

\* _generate_hmac: HMAC-SHA256 of the payload under the secret, hex digest
\* (kept symbolic: equal digests iff equal secret and payload).
GenerateHmac(secret, payload) == <<"hmac-sha256", secret, payload>>

\* Mutant: the signature is computed over a second serialization of the
\* report, json.dumps with its default separators.
SignedPayloadReserialized(payload) == [payload EXCEPT !.fmt = "default"]

\* The text _send_to_api hands to _generate_hmac (line 177): the payload.
SignedPayload(payload) == payload

\* The request _send_to_api posts for a payload it has serialized.
Request(payload) ==
    [kind |-> "post",
     data |-> payload,
     signature |-> <<"sha256=", GenerateHmac(hmac_secret, SignedPayload(payload))>>,
     app |-> app_name]

\* What one _send_to_api(data) call can meet: a TypeError from json.dumps, or
\* any response status, a timeout or a connection error from requests.post.
SendOutcomes(data) ==
    IF Serializable(data) THEN Statuses \cup TransportErrors
    ELSE {"serialization_error"}

\* What one transmission of the report meets at the endpoint as it is.
Transmissions(data) ==
    IF endpoint = "up" /\ Serializable(data) THEN {"200"}
    ELSE SendOutcomes(data)

\* Mutant: every response counts as delivered, whatever its status.
SendOkAnyResponse(o) == o \in Statuses

\* _send_to_api returns True exactly on status 200; every exception is caught.
SendOk(o) == o = "200"

\* int(time.time()) and the file name crash_<timestamp>_<app_name>.json.
UnixTime(clock) == clock \div 2
FileName(clock) == <<"crash_", UnixTime(clock), app_name, ".json">>
FileNames == {FileName(t) : t \in 0..MaxClock}

\* File contents.
EmptyFile == [kind |-> "empty"]                 \* just opened with 'w'
CorruptFile == [kind |-> "corrupt"]             \* text json.load rejects
JsonFile(data) == [kind |-> "json", text |-> JsonDump(data)]
Readable(f) == f.kind = "json"

\* The crash entries of the queue directory (crash_*.json files).
Entries(d) == {f \in FileNames : d[f] # NoFile}

\* os.listdir: the crash entries present, in an order the file system picks.
ListDir(d) ==
    {s \in [1..Cardinality(Entries(d)) -> Entries(d)] :
        \A i, j \in DOMAIN s : i # j => s[i] # s[j]}

(***************************************************************************)
(* Exception handlers: which exceptions each try block catches.            *)
(***************************************************************************)
\* _send_to_api: except requests.exceptions.RequestException / except Exception
SendCatches(exc) == exc \in TransportErrors \cup {"serialization_error"}
\* Mutant: _store_locally catches OSError only.
StoreCatchesOSError(exc) == exc = "OSError"

\* _store_locally: except Exception
StoreCatches(exc) == exc \in {"OSError", "TypeError"}
\* retry_local_crashes: except Exception
RetryCatches(exc) == exc \in {"FileNotFoundError", "JSONDecodeError"}

(***************************************************************************)
(* State.                                                                  *)
(***************************************************************************)
RetryPcs == {"rt_open", "rt_send", "rt_remove"}
ReportPcs == {"rc_send", "rc_open", "rc_write"}

NoCall == [listed |-> 0, attempts |-> 0, delivered |-> 0, afterQuiet |-> FALSE]

\* Crash handler: no reporting thread has been created.
NoThread == [state |-> "none"]

\* Reader: no method is running, nothing received, nothing returned.
NoReaderCall == [method |-> "none"]
NoResponse == [kind |-> "none"]
NoResult == [kind |-> "none"]

\* The state after the reporters, the handler and the reader are constructed.
Constructed ==
    /\ endpoint = "any"
    /\ now = 0
    /\ dirExists = FALSE
    /\ dir = [f \in FileNames |-> NoFile]
    /\ pc = [p \in Procs |-> "idle"]
    /\ crash_data = [p \in Procs |-> NoData]
    /\ outcome = [p \in Procs |-> "none"]
    /\ wire = [p \in Procs |-> NoRequest]
    /\ filepath = [p \in Procs |-> NoPath]
    /\ stored = [p \in Procs |-> "none"]
    /\ listing = [p \in Procs |-> <<>>]
    /\ sent_count = [p \in Procs |-> 0]
    /\ result = [p \in Procs |-> [method |-> "none"]]
    /\ reported = 0
    /\ original = [p \in Procs |-> NoData]
    /\ origin = [f \in FileNames |-> NoData]
    /\ call = [p \in Procs |-> NoCall]
    /\ quiet = FALSE
    /\ hpc = "idle"
    /\ exc_type = None
    /\ thread = NoThread
    /\ waited = 0
    /\ hook_calls = 0
    /\ rpc = "idle"
    /\ rcall = NoReaderCall
    /\ rrequest = NoRequest
    /\ rresponse = NoResponse
    /\ rresult = NoResult

\* A Linux host.
Init == system = "Linux" /\ Constructed

\* Any host.
InitAnyHost == system \in Systems /\ Constructed

\* The host clock advances.
Tick ==
    /\ now < MaxClock
    /\ now' = now + 1
    /\ UNCHANGED <<hostVars, handlerVars, readerVars>>
    /\ UNCHANGED <<dirExists, dir, pc, crash_data, outcome, wire, filepath,
                   stored, listing, sent_count, result, reported, original, origin, call, quiet>>

(***************************************************************************)
(* report_crash                                                            *)
(***************************************************************************)
\* report_crash, line 74: crash_data = self._build_crash_data(...).  The
\* error of the n-th call is the n-th exception of the run.
ReportCrash(p) ==
    /\ pc[p] = "idle"
    /\ reported < MaxReports
    /\ reported' = reported + 1
    /\ \E user_id \in UserIds, session_id \in SessionIds, ctx \in Contexts :
         LET data == BuildCrashData(reported + 1, user_id, session_id, ctx, now)
         IN /\ crash_data' = [crash_data EXCEPT ![p] = data]
            /\ original' = [original EXCEPT ![p] = data]
    /\ pc' = [pc EXCEPT ![p] = "rc_send"]
    /\ UNCHANGED <<hostVars, handlerVars, readerVars>>
    /\ UNCHANGED <<now, dirExists, dir, outcome, wire, filepath, stored, listing,
                   sent_count, result, origin, call, quiet>>

\* _send_to_api as called by report_crash (line 77): serialize, sign, post
\* once; True returns True from report_crash, False goes on to _store_locally.
SendFirst(p) ==
    /\ pc[p] = "rc_send"
    /\ \E o \in Transmissions(crash_data[p]) :
         /\ outcome' = [outcome EXCEPT ![p] = o]
         /\ wire' = [wire EXCEPT ![p] =
                IF o = "serialization_error" THEN NoRequest
                ELSE Request(JsonDumps(crash_data[p]))]
         /\ IF o \notin Statuses /\ ~SendCatches(o)
            THEN /\ pc' = [pc EXCEPT ![p] = "raised"]
                 /\ UNCHANGED result
            ELSE IF SendOk(o)
            THEN /\ pc' = [pc EXCEPT ![p] = "done"]
                 /\ result' = [result EXCEPT ![p] =
                        [method |-> "report_crash", value |-> TRUE]]
            ELSE /\ pc' = [pc EXCEPT ![p] = "rc_open"]
                 /\ UNCHANGED result
    /\ UNCHANGED <<hostVars, handlerVars, readerVars>>
    /\ UNCHANGED <<now, dirExists, dir, crash_data, filepath, stored, listing,
                   sent_count, reported, original, origin, call, quiet>>

\* What a failed _store_locally does: the exception is logged (line 229) and
\* report_crash returns False (line 84); an uncaught one reaches the caller.
StoreFailed(p, exc) ==
    /\ stored' = [stored EXCEPT ![p] = exc]
    /\ IF StoreCatches(exc)
       THEN /\ pc' = [pc EXCEPT ![p] = "done"]
            /\ result' = [result EXCEPT ![p] =
                   [method |-> "report_crash", value |-> FALSE]]
       ELSE /\ pc' = [pc EXCEPT ![p] = "raised"]
            /\ UNCHANGED result

\* _store_locally, lines 216-223: name the file after the current second,
\* make the directory, open the file for writing (creating or truncating it).
StoreOpen(p) ==
    /\ pc[p] = "rc_open"
    /\ LET f == FileName(now)
       IN /\ filepath' = [filepath EXCEPT ![p] = f]
          /\ \/ /\ dirExists' = TRUE
                /\ dir' = [dir EXCEPT ![f] = EmptyFile]
                /\ origin' = [origin EXCEPT ![f] = NoData]
                /\ pc' = [pc EXCEPT ![p] = "rc_write"]
                /\ UNCHANGED <<stored, result>>
             \/ /\ StoreFailed(p, "OSError")
                /\ UNCHANGED <<dirExists, dir, origin>>
    /\ quiet' = FALSE
    /\ UNCHANGED <<hostVars, handlerVars, readerVars>>
    /\ UNCHANGED <<now, crash_data, outcome, wire, listing, sent_count, reported,
                   original, call>>

\* The content of the file after this process wrote its whole text from
\* offset 0: its own text when the file was still empty; when another writer
\* of the same name has written meanwhile, its own text or, if that text was
\* longer, a mix json.load rejects.
Written(old, data) ==
    IF old = EmptyFile THEN {JsonFile(data)} ELSE {JsonFile(data), CorruptFile}

\* _store_locally, lines 224-229: json.dump into the open file, close it.
StoreWrite(p) ==
    /\ pc[p] = "rc_write"
    /\ LET f == filepath[p]
           old == dir[f]
       IN \/ /\ Serializable(crash_data[p])
             /\ \E new \in Written(old, crash_data[p]) :
                  \* a file unlinked meanwhile takes the text with it
                  IF old = NoFile
                  THEN UNCHANGED <<dir, origin>>
                  ELSE /\ dir' = [dir EXCEPT ![f] = new]
                       /\ origin' = [origin EXCEPT ![f] =
                              IF Readable(new) THEN original[p] ELSE NoData]
             /\ stored' = [stored EXCEPT ![p] = "ok"]
             /\ pc' = [pc EXCEPT ![p] = "done"]
             /\ result' = [result EXCEPT ![p] =
                    [method |-> "report_crash", value |-> FALSE]]
          \/ /\ \E exc \in (IF Serializable(crash_data[p])
                            THEN {"OSError"} ELSE {"TypeError"}) :
                  StoreFailed(p, exc)
             \* the text written before the exception stays in the file
             /\ dir' = IF old = NoFile THEN dir ELSE [dir EXCEPT ![f] = CorruptFile]
             /\ origin' = [origin EXCEPT ![f] = NoData]
    /\ quiet' = FALSE
    /\ UNCHANGED <<hostVars, handlerVars, readerVars>>
    /\ UNCHANGED <<now, dirExists, crash_data, outcome, wire, filepath, listing,
                   sent_count, reported, original, call>>

(***************************************************************************)
(* get_local_crashes                                                       *)
(***************************************************************************)
\* The reports get_local_crashes has appended when the first unreadable file
\* of the listing s raises and ends the loop (lines 236-242).
LoadedPrefix(d, s) ==
    LET bad == {i \in DOMAIN s : ~Readable(d[s[i]])}
        n == IF bad = {} THEN Len(s)
             ELSE (CHOOSE i \in bad : \A j \in bad : i <= j) - 1
    IN [i \in 1..n |-> JsonLoad(d[s[i]].text)]

GetLocalCrashes(p) ==
    /\ pc[p] = "idle"
    /\ \E s \in (IF dirExists THEN ListDir(dir) ELSE {<<>>}) :
         result' = [result EXCEPT ![p] =
             [method |-> "get_local_crashes", value |-> LoadedPrefix(dir, s)]]
    /\ pc' = [pc EXCEPT ![p] = "done"]
    /\ UNCHANGED <<hostVars, handlerVars, readerVars>>
    /\ UNCHANGED <<now, dirExists, dir, crash_data, outcome, wire, filepath,
                   stored, listing, sent_count, reported, original, origin,
                   call, quiet>>

(***************************************************************************)
(* retry_local_crashes                                                     *)
(***************************************************************************)
Idle(S) == \A q \in S : pc[q] = "idle"

\* return sent_count (line 268); c is the history of the call.
RetryReturn(p, count, c) ==
    /\ pc' = [pc EXCEPT ![p] = "done"]
    /\ result' = [result EXCEPT ![p] =
           [method |-> "retry_local_crashes", value |-> count]]
    /\ call' = [call EXCEPT ![p] = c]
    /\ quiet' = (c.delivered = c.attempts /\ Idle(Procs \ {p}))

\* An exception inside the try block of retry_local_crashes (lines 252-266):
\* the handler logs it and the method returns the count so far.
RetryRaised(p, exc) ==
    IF RetryCatches(exc)
    THEN RetryReturn(p, sent_count[p], call[p])
    ELSE /\ pc' = [pc EXCEPT ![p] = "raised"]
         /\ UNCHANGED <<result, call, quiet>>

\* The for loop goes on to the next listed file, or ends and the method returns.
RetryNext(p, count, c) ==
    /\ listing' = [listing EXCEPT ![p] = Tail(@)]
    /\ IF Tail(listing[p]) = <<>>
       THEN RetryReturn(p, count, c)
       ELSE /\ pc' = [pc EXCEPT ![p] = "rt_open"]
            /\ call' = [call EXCEPT ![p] = c]
            /\ UNCHANGED <<result, quiet>>

\* retry_local_crashes, lines 248-253: return 0 without a directory, else
\* list the directory.
RetryStart(p) ==
    /\ pc[p] = "idle"
    /\ sent_count' = [sent_count EXCEPT ![p] = 0]
    /\ \E s \in (IF dirExists THEN ListDir(dir) ELSE {<<>>}) :
         LET c == [listed |-> Len(s), attempts |-> 0, delivered |-> 0,
                   afterQuiet |-> quiet /\ Idle(Procs \ {p})]
         IN /\ listing' = [listing EXCEPT ![p] = s]
            /\ IF s = <<>>
               THEN RetryReturn(p, 0, c)
               ELSE /\ pc' = [pc EXCEPT ![p] = "rt_open"]
                    /\ call' = [call EXCEPT ![p] = c]
                    /\ UNCHANGED <<result, quiet>>
    /\ UNCHANGED <<hostVars, handlerVars, readerVars>>
    /\ UNCHANGED <<now, dirExists, dir, crash_data, outcome, wire, filepath,
                   stored, reported, original, origin>>

\* Mutant: the replay stamps the loaded report with the time of the replay.
ReplayDataRestamped(content) ==
    [JsonLoad(content.text) EXCEPT !.crash_timestamp = now]

\* The dict the replay sends: json.load of the entry (lines 257-258).
ReplayData(content) == JsonLoad(content.text)

\* Lines 255-258: open the next listed file and json.load it.
RetryOpen(p) ==
    /\ pc[p] = "rt_open"
    /\ LET f == Head(listing[p])
       IN /\ filepath' = [filepath EXCEPT ![p] = f]
          /\ IF dir[f] = NoFile
             THEN /\ RetryRaised(p, "FileNotFoundError")
                  /\ UNCHANGED <<crash_data, original, outcome, wire>>
             ELSE IF ~Readable(dir[f])
             THEN /\ RetryRaised(p, "JSONDecodeError")
                  /\ UNCHANGED <<crash_data, original, outcome, wire>>
             ELSE /\ crash_data' = [crash_data EXCEPT ![p] = ReplayData(dir[f])]
                  /\ original' = [original EXCEPT ![p] = origin[f]]
                  \* nothing has been posted for this entry yet
                  /\ outcome' = [outcome EXCEPT ![p] = "none"]
                  /\ wire' = [wire EXCEPT ![p] = NoRequest]
                  /\ pc' = [pc EXCEPT ![p] = "rt_send"]
                  /\ UNCHANGED <<result, call, quiet>>
    /\ UNCHANGED <<hostVars, handlerVars, readerVars>>
    /\ UNCHANGED <<now, dirExists, dir, stored, listing, sent_count, reported,
                   origin>>

\* Line 260: _send_to_api(crash_data) for the loaded entry.
RetrySend(p) ==
    /\ pc[p] = "rt_send"
    /\ \E o \in Transmissions(crash_data[p]) :
         LET c == [call[p] EXCEPT !.attempts = @ + 1,
                                  !.delivered = IF o = "200" THEN @ + 1 ELSE @]
         IN /\ outcome' = [outcome EXCEPT ![p] = o]
            /\ wire' = [wire EXCEPT ![p] =
                   IF o = "serialization_error" THEN NoRequest
                   ELSE Request(JsonDumps(crash_data[p]))]
            /\ IF o \notin Statuses /\ ~SendCatches(o)
               THEN /\ pc' = [pc EXCEPT ![p] = "raised"]
                    /\ call' = [call EXCEPT ![p] = c]
                    /\ UNCHANGED <<result, quiet, listing>>
               ELSE IF SendOk(o)
               THEN /\ pc' = [pc EXCEPT ![p] = "rt_remove"]
                    /\ call' = [call EXCEPT ![p] = c]
                    /\ UNCHANGED <<result, quiet, listing>>
               ELSE RetryNext(p, sent_count[p], c)
    /\ UNCHANGED <<hostVars, handlerVars, readerVars>>
    /\ UNCHANGED <<now, dirExists, dir, crash_data, filepath, stored,
                   sent_count, reported, original, origin>>

\* Lines 261-262: os.remove(filepath); sent_count += 1.
RetryRemove(p) ==
    /\ pc[p] = "rt_remove"
    /\ LET f == filepath[p]
       IN IF dir[f] = NoFile
          THEN /\ RetryRaised(p, "FileNotFoundError")
               /\ UNCHANGED <<dir, origin, sent_count, listing>>
          ELSE /\ dir' = [dir EXCEPT ![f] = NoFile]
               /\ origin' = [origin EXCEPT ![f] = NoData]
               /\ sent_count' = [sent_count EXCEPT ![p] = @ + 1]
               /\ RetryNext(p, sent_count[p] + 1, call[p])
    /\ UNCHANGED <<hostVars, handlerVars, readerVars>>
    /\ UNCHANGED <<now, dirExists, crash_data, outcome, wire, filepath, stored,
                   reported, original>>

\* The caller has the returned value; the frame of the method is gone.
Return(p) ==
    /\ pc[p] = "done"
    /\ pc' = [pc EXCEPT ![p] = "idle"]
    /\ crash_data' = [crash_data EXCEPT ![p] = NoData]
    /\ outcome' = [outcome EXCEPT ![p] = "none"]
    /\ wire' = [wire EXCEPT ![p] = NoRequest]
    /\ filepath' = [filepath EXCEPT ![p] = NoPath]
    /\ stored' = [stored EXCEPT ![p] = "none"]
    /\ listing' = [listing EXCEPT ![p] = <<>>]
    /\ sent_count' = [sent_count EXCEPT ![p] = 0]
    /\ result' = [result EXCEPT ![p] = [method |-> "none"]]
    /\ call' = [call EXCEPT ![p] = NoCall]
    /\ original' = [original EXCEPT ![p] = NoData]
    /\ UNCHANGED <<hostVars, handlerVars, readerVars>>
    /\ UNCHANGED <<now, dirExists, dir, reported, origin, quiet>>

\* The steps of the reporter processes in P.
NextOf(P) ==
    \/ Tick
    \/ \E p \in P : ReportCrash(p)
    \/ \E p \in P : SendFirst(p)
    \/ \E p \in P : StoreOpen(p)
    \/ \E p \in P : StoreWrite(p)
    \/ \E p \in P : GetLocalCrashes(p)
    \/ \E p \in P : RetryStart(p)
    \/ \E p \in P : RetryOpen(p)
    \/ \E p \in P : RetrySend(p)
    \/ \E p \in P : RetryRemove(p)
    \/ \E p \in P : Return(p)

Next == NextOf(Procs)

\* Several reporter processes of the same app on one queue directory.
Spec == Init /\ [][Next]_vars

\* One reporter process alone: every method runs to its end before the next.
NextSeq == NextOf({"r1"})
SpecSeq == Init /\ [][NextSeq]_vars

\* The endpoint recovers: from now on every transmission is answered 200.
EndpointRecovers ==
    /\ endpoint = "any"
    /\ endpoint' = "up"
    /\ UNCHANGED <<system, now, dirExists, dir, pc, crash_data, outcome, wire,
                   filepath, stored, listing, sent_count, result, reported,
                   original, origin, call, quiet, handlerVars, readerVars>>

\* The steps inside a method of process p, up to its return.
MethodStep(p) ==
    \/ SendFirst(p)
    \/ StoreOpen(p)
    \/ StoreWrite(p)
    \/ RetryOpen(p)
    \/ RetrySend(p)
    \/ RetryRemove(p)
    \/ Return(p)

\* One reporter process whose endpoint recovers at some point; every method
\* runs to its return and retry_local_crashes is called again and again
\* (at startup by the application, at exit by retry_on_exit).
NextDrain == NextSeq \/ EndpointRecovers
SpecDrain ==
    /\ Init
    /\ [][NextDrain]_vars
    /\ WF_vars(MethodStep("r1"))
    /\ SF_vars(RetryStart("r1"))

\* One reporter process on any host.
SpecAnyHost == InitAnyHost /\ [][NextSeq]_vars

(***************************************************************************)
(* install_crash_handler: the handler put in sys.excepthook                *)
(***************************************************************************)
\* The process whose CrashReporter the handler reports with.
reporter == "r1"

\* Classes of the unhandled exception the interpreter hands to the hook.
ExcTypes == {"KeyboardInterrupt", "ValueError"}

\* Line 301: issubclass(exc_type, KeyboardInterrupt).
IsKeyboardInterrupt(t) == t = "KeyboardInterrupt"

\* Line 315: session_id = f"session_{int(time.time())}".
HandlerSessionId(clock) == "session_" \o ToString(UnixTime(clock))

\* Line 326: thread.join(timeout=5), in seconds.
join_timeout == 5

\* Mutant: thread.join() without a timeout.
JoinNeverExpires(w) == FALSE

\* thread.join(timeout=5) gives up once it has waited the timeout.
JoinExpired(w) == w >= join_timeout

\* The interpreter calls sys.excepthook with an unhandled exception.
Unhandled(t) ==
    /\ hpc = "idle"
    /\ hpc' = "handler"
    /\ exc_type' = t
    /\ UNCHANGED <<now, dirExists, dir, pc, crash_data, outcome, wire, filepath,
                   stored, listing, sent_count, result, reported, original,
                   origin, call, quiet, thread, waited, hook_calls,
                   readerVars, hostVars>>

\* Lines 301-303: a KeyboardInterrupt goes straight to the original hook.
HandlerKeyboardInterrupt ==
    /\ hpc = "handler"
    /\ IsKeyboardInterrupt(exc_type)
    /\ hook_calls' = hook_calls + 1
    /\ hpc' = "returned"
    /\ UNCHANGED <<now, dirExists, dir, pc, crash_data, outcome, wire, filepath,
                   stored, listing, sent_count, result, reported, original,
                   origin, call, quiet, exc_type, thread, waited,
                   readerVars, hostVars>>

\* Lines 306-325: make the session id and start the reporting thread; if
\* thread.start() raises, the bare except (line 328) swallows it.
HandlerStartThread ==
    /\ hpc = "handler"
    /\ ~IsKeyboardInterrupt(exc_type)
    /\ \/ /\ thread' = [state |-> "started", session_id |-> HandlerSessionId(now)]
          /\ hpc' = "join"
       \/ /\ hpc' = "call_original"
          /\ UNCHANGED thread
    /\ UNCHANGED <<now, dirExists, dir, pc, crash_data, outcome, wire, filepath,
                   stored, listing, sent_count, result, reported, original,
                   origin, call, quiet, exc_type, waited, hook_calls,
                   readerVars, hostVars>>

\* The thread body, line 320: reporter.report_crash(crash_exception, user_id,
\* session_id), up to the _build_crash_data call of report_crash (line 74).
\* user_id is the default of install_crash_handler, additional_context that
\* of report_crash.
ReportAsync ==
    /\ thread.state = "started"
    /\ pc[reporter] = "idle"
    /\ reported < MaxReports
    /\ reported' = reported + 1
    /\ LET data == BuildCrashData(reported + 1, None, thread.session_id, None, now)
       IN /\ crash_data' = [crash_data EXCEPT ![reporter] = data]
          /\ original' = [original EXCEPT ![reporter] = data]
    /\ pc' = [pc EXCEPT ![reporter] = "rc_send"]
    /\ thread' = [thread EXCEPT !.state = "running"]
    /\ UNCHANGED <<now, dirExists, dir, outcome, wire, filepath, stored, listing,
                   sent_count, result, origin, call, quiet, hpc, exc_type,
                   waited, hook_calls,
                   readerVars, hostVars>>

\* report_crash has returned, or raised into the bare except of line 321:
\* the thread ends.
ThreadExit ==
    /\ thread.state = "running"
    /\ pc[reporter] \in {"done", "raised"}
    /\ thread' = [thread EXCEPT !.state = "finished"]
    /\ UNCHANGED <<now, dirExists, dir, pc, crash_data, outcome, wire, filepath,
                   stored, listing, sent_count, result, reported, original,
                   origin, call, quiet, hpc, exc_type, waited, hook_calls,

                   readerVars, hostVars>>

\* Line 326: a second passes while thread.join waits for the thread.
JoinWait ==
    /\ hpc = "join"
    /\ thread.state # "finished"
    /\ waited < join_timeout
    /\ waited' = waited + 1
    /\ UNCHANGED <<now, dirExists, dir, pc, crash_data, outcome, wire, filepath,
                   stored, listing, sent_count, result, reported, original,
                   origin, call, quiet, hpc, exc_type, thread, hook_calls,

                   readerVars, hostVars>>

\* Line 326: thread.join returns because the thread has ended.
JoinReturns ==
    /\ hpc = "join"
    /\ thread.state = "finished"
    /\ hpc' = "call_original"
    /\ UNCHANGED <<now, dirExists, dir, pc, crash_data, outcome, wire, filepath,
                   stored, listing, sent_count, result, reported, original,
                   origin, call, quiet, exc_type, thread, waited, hook_calls,

                   readerVars, hostVars>>

\* Line 326: thread.join returns because the timeout has run out.
JoinTimesOut ==
    /\ hpc = "join"
    /\ thread.state # "finished"
    /\ JoinExpired(waited)
    /\ hpc' = "call_original"
    /\ UNCHANGED <<now, dirExists, dir, pc, crash_data, outcome, wire, filepath,
                   stored, listing, sent_count, result, reported, original,
                   origin, call, quiet, exc_type, thread, waited, hook_calls,

                   readerVars, hostVars>>

\* Line 332: original_excepthook(exc_type, exc_value, exc_traceback).
CallOriginal ==
    /\ hpc = "call_original"
    /\ hook_calls' = hook_calls + 1
    /\ hpc' = "returned"
    /\ UNCHANGED <<now, dirExists, dir, pc, crash_data, outcome, wire, filepath,
                   stored, listing, sent_count, result, reported, original,
                   origin, call, quiet, exc_type, thread, waited,
                   readerVars, hostVars>>

\* The steps of the main thread inside crash_handler.
HandlerStep ==
    \/ HandlerKeyboardInterrupt
    \/ HandlerStartThread
    \/ JoinWait
    \/ JoinReturns
    \/ JoinTimesOut
    \/ CallOriginal

NextHandler ==
    \/ Tick
    \/ \E t \in ExcTypes : Unhandled(t)
    \/ HandlerKeyboardInterrupt
    \/ HandlerStartThread
    \/ ReportAsync
    \/ SendFirst(reporter)
    \/ StoreOpen(reporter)
    \/ StoreWrite(reporter)
    \/ ThreadExit
    \/ JoinWait
    \/ JoinReturns
    \/ JoinTimesOut
    \/ CallOriginal

\* One process with the crash handler installed.  The main thread keeps
\* running and time keeps passing while it waits; the reporting thread may
\* hang at any point (a request that does not return).
SpecHandler == Init /\ [][NextHandler]_vars /\ WF_handlerVars(HandlerStep)


(***************************************************************************)
(* The reader client, crash_reader.py                                      *)
(***************************************************************************)
\* Bounds of the reader model.
MaxPage == 2         \* reports in a fetched page whose fields vary
MaxErrors == 11      \* distinct error messages in a fetched page
MaxExtra == 2        \* reports of a page that repeat an error message

\* Python dicts are functions from their keys: a key the dict does not hold
\* is not in the domain.
EmptyDict == [k \in {} |-> 0]
Has(d, k) == k \in DOMAIN d
Get(d, k, default) == IF k \in DOMAIN d THEN d[k] ELSE default

\* The dicts that hold key k with one of the values vs, or do not hold it.
Opt(k, vs) == {EmptyDict} \cup {k :> v : v \in vs}

\* Python truth value of a string or None.
Truthy(v) == v \notin {None, ""}

\* Strings the reader searches in are sequences of characters.
Chars == <<"n", "N", "x">>
Lower(str) == [i \in DOMAIN str |-> IF str[i] = "N" THEN "n" ELSE str[i]]

\* sub in str, for Python strings.
Contains(sub, str) ==
    \E i \in 0..(Len(str) - Len(sub)) :
        \A j \in 1..Len(sub) : str[i + j] = sub[j]

\* The k-th error message: the two-character ones, the one-character ones,
\* the empty one.
Message(k) ==
    IF k <= 9 THEN <<Chars[((k - 1) \div 3) + 1], Chars[((k - 1) % 3) + 1]>>
    ELSE IF k <= 12 THEN <<Chars[k - 9]>>
    ELSE <<>>
Messages == {Message(k) : k \in 1..13}

\* crash_timestamp values of fetched reports: ISO texts, written as the day
\* they name, and a text datetime.fromisoformat rejects.  today is the day
\* of datetime.now(timezone.utc) in get_crash_stats.
today == 100
IsoDay(day) == <<"iso", day>>
BadTimestamp == <<"not a timestamp">>
CrashDays == {99, 92, 70, 69}

\* Fetched reports whose platform, app_version and crash_timestamp vary, each
\* of which may be missing.
FieldReports ==
    {a @@ b @@ c @@ [error_message |-> <<"x">>] :
        a \in Opt("platform", {"macos", "linux"}),
        b \in Opt("app_version", {"v1"}),
        c \in Opt("crash_timestamp", {IsoDay(d) : d \in CrashDays} \cup {BadTimestamp})}

\* A well-formed report with the given error message.
ErrorReport(msg) ==
    [platform |-> "macos", app_version |-> "v1",
     crash_timestamp |-> IsoDay(99), error_message |-> msg]

\* Fetched reports whose error_message varies or is missing.
ErrorReports ==
    {ErrorReport(m) : m \in Messages}
        \cup {[platform |-> "macos", app_version |-> "v1",
               crash_timestamp |-> IsoDay(99)]}

\* The sequences over S of length at most n.
SeqsUpTo(S, n) == UNION {[1..k -> S] : k \in 0..n}

\* Pages that start with n distinct error messages, in the order of the
\* messages, followed by up to MaxExtra further reports.
ManyErrorPages ==
    {[i \in 1..(n + Len(x)) |->
         ErrorReport(Message(IF i <= n THEN i ELSE x[i - n]))] :
        n \in 1..MaxErrors, x \in SeqsUpTo(1..MaxErrors, MaxExtra)}

FieldPages == SeqsUpTo(FieldReports, MaxPage)
ErrorPages == SeqsUpTo(ErrorReports, MaxPage)
SmallPages == SeqsUpTo(ErrorReports, 1)

\* What requests.get can meet: a 2xx response with a JSON body (success and
\* the page, success without data, or no success), a response whose status
\* raise_for_status rejects, or a timeout.
Bodies(pages) ==
    {[success |-> TRUE, data |-> page] : page \in pages}
        \cup {[success |-> TRUE], [success |-> FALSE]}
Responses(pages) ==
    {[kind |-> "json", body |-> b] : b \in Bodies(pages)}
        \cup {[kind |-> "http_error"], [kind |-> "timeout"]}

\* The responses each method of the reader is run against.
ReadResponses == Responses(SmallPages)
StatsResponses == Responses(FieldPages \cup ErrorPages \cup ManyErrorPages)
RecentResponses == Responses(SmallPages)
ByErrorResponses == Responses(ErrorPages)

\* generate_read_signature: the HMAC of the fixed message 'read'.
GenerateReadSignature == GenerateHmac(hmac_secret, "read")

\* CrashReader.__init__, lines 31-32: a reader client constructed with an
\* appVersion, as the derived queries are run on, and the reader clients
\* read_crash_reports is run on; appVersion is optional in the config
\* (self.app_version is None without it).
Reader == [app_name |-> app_name, app_version |-> app_version]
Readers == {Reader, [Reader EXCEPT !.app_version = None]}

\* Mutant: a version the caller does not give has no default.
ReadFilterNoVersionDefault(self, options) ==
    [limit |-> Get(options, "limit", 50),
     offset |-> Get(options, "offset", 0),
     days |-> Get(options, "days", 30),
     version |-> Get(options, "version", None)]

\* read_crash_reports, lines 65-68: the filter values, with their defaults.
ReadFilter(self, options) ==
    [limit |-> Get(options, "limit", 50),
     offset |-> Get(options, "offset", 0),
     days |-> Get(options, "days", 30),
     version |-> Get(options, "version", self.app_version)]

\* Lines 71-79: the query parameters.
ReadParams(f) ==
    (IF f.limit # 50 THEN "limit" :> ToString(f.limit) ELSE EmptyDict)
    @@ (IF f.offset # 0 THEN "offset" :> ToString(f.offset) ELSE EmptyDict)
    @@ (IF f.days # 30 THEN "days" :> ToString(f.days) ELSE EmptyDict)
    @@ (IF Truthy(f.version) THEN "version" :> f.version ELSE EmptyDict)

\* Lines 81-96: the GET request; options is what the method was called with.
ReadRequest(self, options) ==
    [kind |-> "get",
     options |-> options,
     params |-> ReadParams(ReadFilter(self, options)),
     signature |-> <<"sha256=", GenerateReadSignature>>,
     app |-> self.app_name,
     version |-> IF Truthy(self.app_version) THEN self.app_version ELSE ""]

\* Lines 98-102: the parsed body, or the exception that wraps a
\* RequestException.
ReadOutcome(response) ==
    IF response.kind = "json"
    THEN [kind |-> "return", value |-> response.body]
    ELSE [kind |-> "raise", exc |-> "Exception"]

\* The options callers hand to read_crash_reports.
Options ==
    {a @@ b @@ c @@ d :
        a \in Opt("limit", {0, 1, 50, 100, 500}),
        b \in Opt("offset", {-1, 0, 10}),
        c \in Opt("days", {0, 1, 30, 365, 366}),
        d \in Opt("version", {"v2", "", None})}

\* A method of the reader runs from its call to its return or raise.
ReaderRan(c, request, response, res) ==
    /\ rpc' = "done"
    /\ rcall' = c
    /\ rrequest' = request
    /\ rresponse' = response
    /\ rresult' = res
    /\ UNCHANGED <<now, dirExists, dir, pc, crash_data, outcome, wire, filepath,
                   stored, listing, sent_count, result, reported, original,
                   origin, call, quiet, handlerVars, hostVars>>

\* read_crash_reports(options)
ReadCrashReports ==
    /\ rpc = "idle"
    /\ \E self \in Readers, options \in Options, response \in ReadResponses :
         ReaderRan([method |-> "read_crash_reports", self |-> self,
                    options |-> options],
                   ReadRequest(self, options), response, ReadOutcome(response))

\* The caller has the result; the reader is ready for the next call.
ReaderReturn ==
    /\ rpc = "done"
    /\ rpc' = "idle"
    /\ rcall' = NoReaderCall
    /\ rrequest' = NoRequest
    /\ rresponse' = NoResponse
    /\ rresult' = NoResult
    /\ UNCHANGED <<now, dirExists, dir, pc, crash_data, outcome, wire, filepath,
                   stored, listing, sent_count, result, reported, original,
                   origin, call, quiet, handlerVars, hostVars>>

(***************************************************************************)
(* get_crash_stats                                                         *)
(***************************************************************************)
\* The 'unknown' of report.get('error_message', 'unknown'), as characters.
Unknown == <<"u", "n", "k", "n", "o", "w", "n">>

\* Line 166: sorted_errors[:10].
TopK == 10

Min(a, b) == IF a <= b THEN a ELSE b
Max(a, b) == IF a >= b THEN a ELSE b

\* Mutant: d[k] = 1, the count of a key is not added up.
DictSetOne(d, k) ==
    IF \E i \in DOMAIN d : d[i].key = k THEN d
    ELSE Append(d, [key |-> k, count |-> 1])

\* A histogram dict, in insertion order: a sequence of keys with their counts.
\* d[k] = d.get(k, 0) + 1 (lines 146, 150, 154).
DictInc(d, k) ==
    IF \E i \in DOMAIN d : d[i].key = k
    THEN [i \in DOMAIN d |->
             IF d[i].key = k THEN [d[i] EXCEPT !.count = @ + 1] ELSE d[i]]
    ELSE Append(d, [key |-> k, count |-> 1])

\* Line 142: report['crash_timestamp'] raises KeyError without the key,
\* datetime.fromisoformat raises ValueError on a text it cannot parse.
TimestampError(report) ==
    IF ~Has(report, "crash_timestamp") THEN "KeyError"
    ELSE IF report.crash_timestamp[1] # "iso" THEN "ValueError"
    ELSE "none"
CrashTime(report) == report.crash_timestamp[2]

\* Mutant: a report is counted in the narrowest window it falls in only.
InBucketOnly(crash_time, days) ==
    /\ crash_time >= today - days
    /\ days = 1 \/ crash_time < today - (IF days = 7 THEN 1 ELSE 7)

\* Lines 137-139, 157-162: crash_time >= now - timedelta(days=days).
InWindow(crash_time, days) == crash_time >= today - days

\* len(set(r.get(k) for r in crash_data if r.get(k))) (lines 124-125).
UniqueCount(page, k) ==
    Cardinality({page[i][k] : i \in {j \in DOMAIN page :
                     Has(page[j], k) /\ Truthy(page[j][k])}})

\* Lines 122-134: the statistics before the loop.
InitialStats(page) ==
    [total_crashes |-> Len(page),
     unique_users |-> UniqueCount(page, "user_id"),
     unique_sessions |-> UniqueCount(page, "session_id"),
     platforms |-> <<>>,
     versions |-> <<>>,
     top_errors |-> <<>>,
     time_distribution |-> [last_24h |-> 0, last_7d |-> 0, last_30d |-> 0]]

\* Lines 144-162: the body of the loop for a report whose timestamp parsed.
StatsAdd(stats, report) ==
    LET t == CrashTime(report)
        Inc(n, days) == IF InWindow(t, days) THEN n + 1 ELSE n
    IN [stats EXCEPT
          !.platforms = DictInc(@, Get(report, "platform", "unknown")),
          !.versions = DictInc(@, Get(report, "app_version", "unknown")),
          !.top_errors = DictInc(@, Get(report, "error_message", Unknown)),
          !.time_distribution =
              [last_24h |-> Inc(@.last_24h, 1),
               last_7d |-> Inc(@.last_7d, 7),
               last_30d |-> Inc(@.last_30d, 30)]]

\* Lines 141-162: the loop from the i-th report on; an exception of line 142
\* ends it and leaves get_crash_stats.
RECURSIVE StatsLoop(_, _, _)
StatsLoop(stats, page, i) ==
    IF i > Len(page) THEN [kind |-> "return", value |-> stats]
    ELSE IF TimestampError(page[i]) # "none"
    THEN [kind |-> "raise", exc |-> TimestampError(page[i])]
    ELSE StatsLoop(StatsAdd(stats, page[i]), page, i + 1)

\* Mutant: the sort puts an item before the items of equal count.
InsertBeforeEqual(sorted, x) ==
    LET k == Cardinality({i \in DOMAIN sorted : sorted[i].count > x.count})
    IN SubSeq(sorted, 1, k) \o <<x>> \o SubSeq(sorted, k + 1, Len(sorted))

\* sorted(..., key=count, reverse=True) is stable: an item goes behind the
\* items sorted so far whose count is higher or equal.
InsertByCount(sorted, x) ==
    LET k == Cardinality({i \in DOMAIN sorted : sorted[i].count >= x.count})
    IN SubSeq(sorted, 1, k) \o <<x>> \o SubSeq(sorted, k + 1, Len(sorted))

\* Line 165: sorted(stats['top_errors'].items(), key=lambda x: x[1],
\* reverse=True).
RECURSIVE SortedErrors(_)
SortedErrors(items) ==
    IF Len(items) = 0 THEN <<>>
    ELSE InsertByCount(SortedErrors(SubSeq(items, 1, Len(items) - 1)),
                       items[Len(items)])

\* Line 166: dict(sorted_errors[:10]).
TopErrors(items) == SubSeq(SortedErrors(items), 1, Min(TopK, Len(items)))

\* Lines 119-168: the statistics of a page.
Aggregate(page) ==
    LET r == StatsLoop(InitialStats(page), page, 1)
    IN IF r.kind = "raise" THEN r
       ELSE [kind |-> "return",
             value |-> [r.value EXCEPT !.top_errors = TopErrors(@)]]

\* Python truth value of reports.get('success') and of reports.get('data').
Success(reports) == Get(reports, "success", FALSE)
HasData(reports) == Has(reports, "data") /\ Len(reports.data) > 0

\* Lines 114-168: what get_crash_stats gives for a response.
StatsOutcome(response) ==
    LET r == ReadOutcome(response)
    IN IF r.kind = "raise" THEN r
       ELSE IF ~Success(r.value) \/ ~HasData(r.value)
       THEN [kind |-> "raise", exc |-> "Exception"]
       ELSE Aggregate(r.value.data)

StatsDays == {7, 30}

\* get_crash_stats(days)
GetCrashStats ==
    /\ rpc = "idle"
    /\ \E self \in {Reader}, days \in StatsDays, response \in StatsResponses :
         ReaderRan([method |-> "get_crash_stats", self |-> self, days |-> days],
                   ReadRequest(self, [days |-> days, limit |-> 100]),
                   response, StatsOutcome(response))

(***************************************************************************)
(* get_recent_crashes                                                      *)
(***************************************************************************)
\* Line 180: days = max(1, hours // 24).
RecentDays(hours) == Max(1, hours \div 24)

\* Lines 181-186.
RecentOutcome(response) ==
    LET r == ReadOutcome(response)
    IN IF r.kind = "raise" THEN r
       ELSE IF ~Success(r.value) THEN [kind |-> "raise", exc |-> "Exception"]
       ELSE [kind |-> "return", value |-> Get(r.value, "data", <<>>)]

Hours == {0, 1, 23, 24, 25, 47, 48, 720, 8783, 8784}

\* get_recent_crashes(hours)
GetRecentCrashes ==
    /\ rpc = "idle"
    /\ \E self \in {Reader}, hours \in Hours, response \in RecentResponses :
         ReaderRan([method |-> "get_recent_crashes", self |-> self,
                    hours |-> hours],
                   ReadRequest(self, [days |-> RecentDays(hours), limit |-> 100]),
                   response, RecentOutcome(response))

(***************************************************************************)
(* get_crashes_by_error                                                    *)
(***************************************************************************)
\* Mutant: the comparison keeps the case of the characters.
KeepCase(str) == str

\* str.lower() as get_crashes_by_error applies it to both sides.
MatchCase(str) == Lower(str)

\* Lines 209-210: the report has a non-empty error_message that holds the
\* lowered search text.
Matches(error_lower, report) ==
    /\ Has(report, "error_message")
    /\ Len(report.error_message) > 0
    /\ Contains(error_lower, MatchCase(report.error_message))

\* Lines 199-211.
ByErrorOutcome(error_message, response) ==
    LET r == ReadOutcome(response)
        error_lower == MatchCase(error_message)
        Keep(report) == Matches(error_lower, report)
    IN IF r.kind = "raise" THEN r
       ELSE IF ~Success(r.value) THEN [kind |-> "raise", exc |-> "Exception"]
       ELSE [kind |-> "return",
             value |-> SelectSeq(Get(r.value, "data", <<>>), Keep)]

\* get_crashes_by_error(error_message, days)
GetCrashesByError ==
    /\ rpc = "idle"
    /\ \E self \in {Reader}, error_message \in Messages, days \in StatsDays,
          response \in ByErrorResponses :
         ReaderRan([method |-> "get_crashes_by_error", self |-> self,
                    error_message |-> error_message, days |-> days],
                   ReadRequest(self, [days |-> days, limit |-> 100]),
                   response, ByErrorOutcome(error_message, response))

NextReader ==
    \/ ReadCrashReports
    \/ GetCrashStats
    \/ GetRecentCrashes
    \/ GetCrashesByError
    \/ ReaderReturn

\* One reader client and the endpoint it queries.
SpecReader == Init /\ [][NextReader]_vars

(***************************************************************************)
(* Properties.                                                             *)
(***************************************************************************)
\* Process p returns from report_crash / from retry_local_crashes in this step.
ReportCrashReturns(p) == pc[p] \in ReportPcs /\ pc'[p] = "done"
RetryReturns(p) ==
    /\ pc[p] \in RetryPcs \cup {"idle"}
    /\ pc'[p] = "done"
    /\ result'[p].method = "retry_local_crashes"

\* The report data can be reconstructed from the file content: loading the
\* file gives a dict that serializes to the same payload as data.
Reconstructs(content, data) ==
    /\ Readable(content)
    /\ JsonDumps(JsonLoad(content.text)) = JsonDumps(data)

C2_StoreCreatesNewEntry ==
    [][\A p \in Procs : (pc[p] = "rc_open" /\ pc'[p] = "rc_write") =>
         /\ dir[filepath'[p]] = NoFile
         /\ \A f \in Entries(dir) : dir'[f] = dir[f]
         /\ Cardinality(Entries(dir')) = Cardinality(Entries(dir)) + 1]_vars

\* C3 as stated: when a replay in which no delivery attempt failed returns,
\* the queue holds no entries; and a replay that follows such a replay with no
\* report stored in between attempts no delivery and returns 0.
C3_ReplayIdempotent ==
    [][\A p \in Procs :
         (RetryReturns(p) /\ call'[p].delivered = call'[p].attempts) =>
            /\ Entries(dir') = {}
            /\ call'[p].afterQuiet =>
                 (call'[p].attempts = 0 /\ result'[p].value = 0)]_vars

\* C4 as stated: a replay attempts every entry it found at its start, deletes
\* the entry on a 200, leaves the queue as it is on a failed attempt, and
\* returns the number of entries re-delivered in the call.
C4_ReplayAttemptsAll ==
    [][\A p \in Procs :
         /\ RetryReturns(p) =>
              /\ call'[p].attempts = call'[p].listed
              /\ result'[p].value = call'[p].delivered
         /\ (pc[p] = "rt_send" /\ pc'[p] # "rt_send" /\ outcome'[p] # "200") =>
              dir' = dir
         /\ (pc[p] = "rt_remove" /\ pc'[p] # "rt_remove") =>
              dir'[filepath[p]] = NoFile]_vars

\* C5 as stated: an entry of the queue changes only by being removed, by a
\* replay whose transmission of that entry's report returned 200 (the text
\* the storing call writes into the empty file it created is the creation of
\* the entry, not a change of it).
C5_OnlyDeliveredEntriesChange ==
    [][\A f \in FileNames : (dir[f] # NoFile /\ dir'[f] # dir[f]) =>
         \/ /\ dir'[f] = NoFile
            /\ \E p \in Procs :
                 /\ pc[p] = "rt_remove" /\ pc'[p] # "rt_remove"
                 /\ filepath[p] = f
                 /\ outcome[p] = "200"
                 /\ Readable(dir[f])
                 /\ JsonLoad(dir[f].text) = crash_data[p]
         \/ /\ dir[f] = EmptyFile
            /\ \E p \in Procs :
                 /\ pc[p] = "rc_write" /\ pc'[p] # "rc_write"
                 /\ filepath[p] = f]_vars

\* C6 as stated: a replay that finds the listed entry gone, when it opens it or
\* when it removes it, skips it and goes on to the remaining listed entries.
C6_ReplaySkipsVanished ==
    [][\A p \in Procs :
         ( /\ \/ pc[p] = "rt_open" /\ dir[Head(listing[p])] = NoFile
              \/ pc[p] = "rt_remove" /\ dir[filepath[p]] = NoFile
           /\ pc'[p] # pc[p]
           /\ Len(listing[p]) > 1 ) =>
            (pc'[p] = "rt_open" /\ listing'[p] = Tail(listing[p]))]_vars

\* The second the entry with this file name was created in.
CreatedAt(f) == f[2]

\* C7 as stated: a replay attempts the entries oldest first: no entry it has
\* still to attempt is older than the one it is sending.
C7_ReplayOldestFirst ==
    \A p \in Procs : pc[p] = "rt_send" =>
        \A i \in 2..Len(listing[p]) :
            CreatedAt(filepath[p]) <= CreatedAt(listing[p][i])

\* C8: every request, first attempt or replay, carries the payload of the
\* report as _build_crash_data returned it, with the crash_timestamp of the
\* build; and every readable entry holds the crash_timestamp of the build.
C8_ReplayCarriesBuiltReport ==
    /\ \A p \in Procs : wire[p] # NoRequest =>
          /\ wire[p].data = JsonDumps(original[p])
          /\ wire[p].data.doc.crash_timestamp = original[p].crash_timestamp
    /\ \A f \in FileNames : Readable(dir[f]) =>
          JsonLoad(dir[f].text).crash_timestamp = origin[f].crash_timestamp

\* C8 witness: a replay has re-delivered, after the clock moved on, a report
\* whose dict changed in the file round trip (its tuple came back as a list).
C8_Witness ==
    \E p \in Procs :
        /\ pc[p] = "rt_remove"
        /\ wire[p] # NoRequest
        /\ original[p].crash_timestamp < now
        /\ original[p].hardware_specs = "tuple"
        /\ crash_data[p].hardware_specs = "list"

\* C9: the X-HMAC-Signature of every request is sha256= followed by the HMAC,
\* under the secret, of the very payload the request carries as its body.
C9_SignatureOfSentPayload ==
    \A p \in Procs : wire[p] # NoRequest =>
        wire[p].signature = <<"sha256=", GenerateHmac(hmac_secret, wire[p].data)>>

\* C9 witness: one process has posted a replay and another a first attempt.
C9_Witness ==
    \E p, q \in Procs :
        /\ pc[p] = "rt_remove" /\ wire[p] # NoRequest
        /\ pc[q] = "rc_open" /\ wire[q] # NoRequest

\* C10: no method of the reporting path raises to its caller.
C10_NeverRaises == \A p \in Procs : pc[p] # "raised"

\* C10 witness: report_crash has returned after json.dumps raised in
\* _send_to_api and json.dump raised in _store_locally, and a replay has
\* returned after json.load raised on the entry that store left behind.
C10_Witness ==
    \E p, q \in Procs :
        /\ pc[p] = "done"
        /\ result[p] = [method |-> "report_crash", value |-> FALSE]
        /\ outcome[p] = "serialization_error"
        /\ stored[p] = "TypeError"
        /\ pc[q] = "done"
        /\ result[q] = [method |-> "retry_local_crashes", value |-> 0]
        /\ listing[q] # <<>>

\* C11: every unhandled exception handed to the crash handler reaches the
\* original hook, which is called exactly once, whatever the reporting thread
\* does; for a KeyboardInterrupt no thread is started and no report is built
\* or sent.
C11_OriginalHookOnce ==
    /\ [](hook_calls <= 1)
    /\ [](hpc = "returned" => hook_calls = 1)
    /\ [](hpc = "handler" => <>(hpc = "returned"))
    /\ [](IsKeyboardInterrupt(exc_type) =>
            /\ thread = NoThread
            /\ reported = 0
            /\ crash_data[reporter] = NoData
            /\ wire[reporter] = NoRequest)

\* C11 witness: the original hook has been called once while the reporting
\* thread, which has posted nothing yet, was still running when the wait
\* ran out.
C11_Witness ==
    /\ hpc = "returned"
    /\ hook_calls = 1
    /\ waited = join_timeout
    /\ thread.state = "running"
    /\ pc[reporter] = "rc_send"

\* C12 as stated: no request is issued for a filter out of range: a limit
\* outside 1..100, days outside 1..365 or a negative offset.
C12_ValidatesBeforeRequest ==
    (rcall.method = "read_crash_reports" /\ rrequest # NoRequest) =>
        LET f == ReadFilter(rcall.self, rcall.options)
        IN /\ f.limit \in 1..100
           /\ f.days \in 1..365
           /\ f.offset >= 0

\* The reader has returned from get_crash_stats with the statistics of the
\* page FetchedPage.
StatsReturned == rcall.method = "get_crash_stats" /\ rresult.kind = "return"
FetchedPage == Get(rresponse.body, "data", <<>>)

\* The key a report is counted under in top_errors, the number of reports of
\* the page under a key, and the first of them.
ErrorKey(report) == Get(report, "error_message", Unknown)
ErrorKeys(page) == {ErrorKey(page[i]) : i \in DOMAIN page}
ErrorCount(page, k) == Cardinality({i \in DOMAIN page : ErrorKey(page[i]) = k})
FirstSeen(page, k) ==
    CHOOSE i \in DOMAIN page :
        /\ ErrorKey(page[i]) = k
        /\ \A j \in DOMAIN page : ErrorKey(page[j]) = k => i <= j

\* C13: top_errors holds at most 10 keys of the page, each with its count:
\* those of the highest counts, in descending order of count, keys of equal
\* count in the order of their first occurrence; no key left out has a
\* higher count than a key kept.
C13_TopErrorsOrdered ==
    StatsReturned =>
        LET page == FetchedPage
            top == rresult.value.top_errors
            kept == {top[i].key : i \in DOMAIN top}
        IN /\ Len(top) = Min(10, Cardinality(ErrorKeys(page)))
           /\ \A i \in DOMAIN top :
                /\ top[i].key \in ErrorKeys(page)
                /\ top[i].count = ErrorCount(page, top[i].key)
           /\ \A i, j \in DOMAIN top : i < j =>
                /\ top[i].key # top[j].key
                /\ \/ top[i].count > top[j].count
                   \/ /\ top[i].count = top[j].count
                      /\ FirstSeen(page, top[i].key) < FirstSeen(page, top[j].key)
           /\ \A k \in ErrorKeys(page) \ kept : \A i \in DOMAIN top :
                ErrorCount(page, k) <= top[i].count

\* C13 witness: of a page with 11 error messages, top_errors holds 10; the
\* message the page repeats comes first although the page holds it late, and
\* the message left out is the last of those that occur once.
C13_Witness ==
    /\ StatsReturned
    /\ Cardinality(ErrorKeys(FetchedPage)) = 11
    /\ Len(rresult.value.top_errors) = 10
    /\ rresult.value.top_errors[1] = [key |-> Message(10), count |-> 3]
    /\ rresult.value.top_errors[2] = [key |-> Message(1), count |-> 1]
    /\ \A i \in 1..10 : rresult.value.top_errors[i].key # Message(11)

\* The reports of the page whose crash_timestamp lies in the last days days.
Within(page, days) ==
    {i \in DOMAIN page : CrashTime(page[i]) >= today - days}

\* C14: the three buckets are cumulative: each counts the reports of the page
\* whose crash_timestamp is not older than its window, so a report of the last
\* day is in all three and one between 30 and 7 days old in last_30d only, and
\* last_24h <= last_7d <= last_30d <= total_crashes.
C14_TimeDistributionCumulative ==
    StatsReturned =>
        LET page == FetchedPage
            stats == rresult.value
            td == stats.time_distribution
        IN /\ td.last_24h = Cardinality(Within(page, 1))
           /\ td.last_7d = Cardinality(Within(page, 7))
           /\ td.last_30d = Cardinality(Within(page, 30))
           /\ td.last_24h <= td.last_7d
           /\ td.last_7d <= td.last_30d
           /\ td.last_30d <= stats.total_crashes

\* C14 witness: statistics of a page with a report of the last day and a
\* report eight days old.
C14_Witness ==
    /\ StatsReturned
    /\ Len(FetchedPage) = 2
    /\ CrashTime(FetchedPage[1]) = 99
    /\ CrashTime(FetchedPage[2]) = 92
    /\ rresult.value.time_distribution =
           [last_24h |-> 1, last_7d |-> 1, last_30d |-> 2]

\* The reports of the page whose timestamp line 142 can parse.
Parsable(page) == {i \in DOMAIN page : TimestampError(page[i]) = "none"}

RECURSIVE SumCounts(_)
SumCounts(d) == IF Len(d) = 0 THEN 0 ELSE d[1].count + SumCounts(Tail(d))

\* C15 as stated: for a page with a report whose crash_timestamp is missing or
\* unparsable, get_crash_stats returns; the report is left out of the time
\* buckets and counted in total_crashes and in the histograms.
C15_BadTimestampSkipped ==
    ( /\ rcall.method = "get_crash_stats"
      /\ rresponse.kind = "json"
      /\ Success(rresponse.body)
      /\ Parsable(FetchedPage) # DOMAIN FetchedPage ) =>
        /\ rresult.kind = "return"
        /\ rresult.value.total_crashes = Len(FetchedPage)
        /\ rresult.value.time_distribution.last_30d <=
               Cardinality(Parsable(FetchedPage))
        /\ SumCounts(rresult.value.platforms) = Len(FetchedPage)
        /\ SumCounts(rresult.value.versions) = Len(FetchedPage)

\* A histogram maps each of its keys to the number of reports of the page
\* that have the key, keys[j] being the key of the j-th report, and holds no
\* key twice.
Counts(hist, keys) ==
    /\ \A i \in DOMAIN hist :
         hist[i].count = Cardinality({j \in DOMAIN keys : keys[j] = hist[i].key})
    /\ \A i, j \in DOMAIN hist : i # j => hist[i].key # hist[j].key

\* C16 as stated: the platform and the version histogram map each key to the
\* number of reports of the page that have that platform / app_version, and
\* the counts of each sum to total_crashes, the number of reports of the page.
C16_HistogramsExact ==
    StatsReturned =>
        LET page == FetchedPage
            stats == rresult.value
            platform == [i \in DOMAIN page |->
                            IF Has(page[i], "platform")
                            THEN page[i].platform ELSE "<no platform>"]
            version == [i \in DOMAIN page |->
                           IF Has(page[i], "app_version")
                           THEN page[i].app_version ELSE "<no app_version>"]
        IN /\ Counts(stats.platforms, platform)
           /\ Counts(stats.versions, version)
           /\ stats.total_crashes = Len(page)
           /\ SumCounts(stats.platforms) = stats.total_crashes
           /\ SumCounts(stats.versions) = stats.total_crashes

\* C16 amended: the platform and the version histogram map each key to the
\* number of reports of the page with that platform / app_version, where a
\* report without the field is counted under the key unknown; the counts of
\* each sum to total_crashes, the number of reports of the page.
C16_HistogramsExactWithDefault ==
    StatsReturned =>
        LET page == FetchedPage
            stats == rresult.value
            platform == [i \in DOMAIN page |->
                            IF Has(page[i], "platform")
                            THEN page[i].platform ELSE "unknown"]
            version == [i \in DOMAIN page |->
                           IF Has(page[i], "app_version")
                           THEN page[i].app_version ELSE "unknown"]
        IN /\ Counts(stats.platforms, platform)
           /\ Counts(stats.versions, version)
           /\ stats.total_crashes = Len(page)
           /\ SumCounts(stats.platforms) = stats.total_crashes
           /\ SumCounts(stats.versions) = stats.total_crashes

\* C16 witness: statistics of a page of two macos reports, and statistics of
\* a page whose second report has no platform.
C16_Witness ==
    /\ StatsReturned
    /\ Len(FetchedPage) = 2
    /\ \/ rresult.value.platforms = <<[key |-> "macos", count |-> 2]>>
       \/ rresult.value.platforms =
              <<[key |-> "linux", count |-> 1], [key |-> "unknown", count |-> 1]>>
    /\ SumCounts(rresult.value.versions) = 2

\* C17 as stated: for every response with success = true and a page, the
\* empty page included, get_crash_stats returns statistics whose
\* total_crashes is the number of reports of the page.
C17_EmptyPageGivesZero ==
    ( /\ rcall.method = "get_crash_stats"
      /\ rresponse.kind = "json"
      /\ Success(rresponse.body)
      /\ Has(rresponse.body, "data")
      /\ Parsable(FetchedPage) = DOMAIN FetchedPage ) =>
        /\ rresult.kind = "return"
        /\ rresult.value.total_crashes = Len(FetchedPage)

\* str holds sub when case is ignored.
ContainsIgnoringCase(sub, str) ==
    \E i \in 0..(Len(str) - Len(sub)) :
        \A j \in 1..Len(sub) : Lower(<<str[i + j]>>) = Lower(<<sub[j]>>)

\* The reader has returned from get_crashes_by_error.
ByErrorReturned ==
    rcall.method = "get_crashes_by_error" /\ rresult.kind = "return"

\* C18 as stated: get_crashes_by_error returns the reports of the page whose
\* error_message holds the search text when case is ignored, in the order of
\* the page, never a report without error_message; and the request is the one
\* for the days window alone, without the search text.
C18_ByErrorExact ==
    ByErrorReturned =>
        LET Hit(report) ==
                /\ Has(report, "error_message")
                /\ ContainsIgnoringCase(rcall.error_message, report.error_message)
        IN /\ rresult.value = SelectSeq(FetchedPage, Hit)
           /\ rrequest = ReadRequest(rcall.self, [days |-> rcall.days, limit |-> 100])

\* C18 amended: get_crashes_by_error returns the reports of the page that
\* have a non-empty error_message which holds the search text when case is
\* ignored, in the order of the page; a report whose error_message is missing
\* or empty is never returned, not even for the empty search text; and the
\* request is the one for the days window alone, without the search text.
C18_ByErrorExactNonEmpty ==
    ByErrorReturned =>
        LET Hit(report) ==
                /\ Has(report, "error_message")
                /\ Len(report.error_message) > 0
                /\ ContainsIgnoringCase(rcall.error_message, report.error_message)
        IN /\ rresult.value = SelectSeq(FetchedPage, Hit)
           /\ rrequest = ReadRequest(rcall.self, [days |-> rcall.days, limit |-> 100])

\* C18 witness: the search for N has returned the report with the message xn,
\* and not the report without a message that follows it in the page.
C18_Witness ==
    /\ ByErrorReturned
    /\ rcall.error_message = <<"N">>
    /\ Len(FetchedPage) = 2
    /\ FetchedPage[1] = ErrorReport(<<"x", "n">>)
    /\ ~Has(FetchedPage[2], "error_message")
    /\ rresult.value = <<ErrorReport(<<"x", "n">>)>>

\* C19 as stated: get_recent_crashes(hours) asks for the days window
\* max(1, floor(hours / 24)), and that window lies in 1..365.
C19_RecentDaysInRange ==
    (rcall.method = "get_recent_crashes" /\ rrequest # NoRequest) =>
        LET whole == CHOOSE d \in 0..rcall.hours :
                         24 * d <= rcall.hours /\ rcall.hours < 24 * (d + 1)
            days == rrequest.options.days
        IN /\ days = (IF whole < 1 THEN 1 ELSE whole)
           /\ days \in 1..365

\* C20 as stated: every report built has a string as session_id, never None:
\* the report a method holds, the report a request carries and the report an
\* entry of the queue holds.
C20_SessionIdPresent ==
    /\ \A p \in Procs :
         /\ crash_data[p] # NoData => crash_data[p].session_id # None
         /\ wire[p] # NoRequest => wire[p].data.doc.session_id # None
    /\ \A f \in FileNames :
         Readable(dir[f]) => JsonLoad(dir[f].text).session_id # None

\* A read_crash_reports call has issued its request.
ReadIssued == rcall.method = "read_crash_reports" /\ rrequest # NoRequest

\* C21 as stated: the query string of a read request holds limit, offset or
\* days exactly when the value differs from the default (50, 0, 30), and
\* version exactly when the caller gives one; a call without options sends
\* no query parameter.
C21_ParamsIffNonDefault ==
    ReadIssued =>
        LET o == rcall.options
            q == rrequest.params
        IN /\ Has(q, "limit") <=> Get(o, "limit", 50) # 50
           /\ Has(q, "offset") <=> Get(o, "offset", 0) # 0
           /\ Has(q, "days") <=> Get(o, "days", 30) # 30
           /\ Has(q, "version") <=> (Has(o, "version") /\ Truthy(o.version))
           /\ o = EmptyDict => q = EmptyDict

\* C21 as amended: limit, offset and days are in the query string exactly
\* when the value differs from the default, as its decimal text; version is
\* in it exactly when the version in effect (the caller's, else the app
\* version the reader was constructed with) is a non-empty string, with that
\* value; a call without options sends the reader's app version alone, or
\* nothing when the reader has none.
C21_ParamsIffInEffect ==
    ReadIssued =>
        LET o == rcall.options
            q == rrequest.params
            version == IF Has(o, "version") THEN o.version
                       ELSE rcall.self.app_version
        IN /\ DOMAIN q \subseteq {"limit", "offset", "days", "version"}
           /\ Has(q, "limit") <=> Get(o, "limit", 50) # 50
           /\ Has(q, "offset") <=> Get(o, "offset", 0) # 0
           /\ Has(q, "days") <=> Get(o, "days", 30) # 30
           /\ \A k \in {"limit", "offset", "days"} :
                Has(q, k) => q[k] = ToString(o[k])
           /\ Has(q, "version") <=> version \notin {None, ""}
           /\ Has(q, "version") => q.version = version
           /\ o = EmptyDict =>
                q = (IF rcall.self.app_version = None THEN EmptyDict
                     ELSE "version" :> rcall.self.app_version)

\* A call without options on a reader constructed with an app version: the
\* request carries that version.
C21_Witness ==
    /\ ReadIssued
    /\ rcall.options = EmptyDict
    /\ rcall.self.app_version = app_version
    /\ rrequest.params = ("version" :> app_version)

\* C22 as stated: the platform of every built report is one of windows,
\* macos, linux, android, ios, other, and it is other on a host whose system
\* name is none of the named ones.
C22_PlatformNormalized ==
    \A p \in Procs :
        crash_data[p] # NoData =>
            /\ crash_data[p].platform \in
                   {"windows", "macos", "linux", "android", "ios", "other"}
            /\ system \notin {"Windows", "Darwin", "Linux", "Android", "iOS"} =>
                   crash_data[p].platform = "other"

\* C23 as stated: once the endpoint answers every transmission with 200 and
\* retry_local_crashes keeps being called, every entry of the queue is
\* eventually delivered and deleted, and an entry that cannot be read or
\* parsed does not keep the readable entries from being delivered and deleted.
C23_QueueDrains ==
    \A f \in FileNames :
        /\ [](endpoint = "up" /\ dir[f] # NoFile => <>(dir[f] = NoFile))
        /\ [](endpoint = "up" /\ Readable(dir[f]) => <>(dir[f] = NoFile))

====
